---- MODULE Spec2Model ----
(***************************************************************************)
(* Model of the presentation service of src/ppt_flask.py: the in-memory    *)
(* cache presentations_db, the per-id files of the three folders the       *)
(* handlers read and write, and the request handlers create_presentation,  *)
(* get_presentation_json, update_slide, export_ppt, delete_presentation    *)
(* and slide_operations, one action per handler.                           *)
(*                                                                         *)
(* Python objects are modelled with their sharing: the `elements` list of  *)
(* a cached slide is an object of `heap`, named by a reference, because    *)
(* the copy operation builds the clone with {**slide_to_copy, ...}, which  *)
(* copies the keys of the slide and shares the list (and the element       *)
(* dicts in it) with the source.  json.dump writes the referenced lists    *)
(* inline and json.load allocates new lists.                               *)
(*                                                                         *)
(* datetime.now() is a logical clock `now` that is strictly larger at      *)
(* every read; uuid.uuid4() is a generator of tokens never issued before.  *)
(*                                                                         *)
(* Specifications: Spec (a first start, every handler), SpecEdit (a stored *)
(* presentation and its editing requests), SpecExport (the same with       *)
(* export_ppt), SpecFault (the same with a disk that stops taking writes), *)
(* SpecRate (requests to create_presentation over more than a minute),     *)
(* SpecGenerate (calls of generate_ai_content), SpecMirror (the methods of *)
(* S3Service of src/modules/s3_service.py), SpecParse (extract_ppt_to_json *)
(* on files and on the output of create_powerpoint, one call per           *)
(* behaviour) and SpecRace (two threads in the delete branch of            *)
(* slide_operations, interleaved between check, removal and save).         *)
(***************************************************************************)
EXTENDS Integers, Sequences, FiniteSets, TLC

VARIABLES
    db,          \* presentations_db: presentation id -> cached presentation
    heap,        \* the `elements` list objects of the cached slides
    presFile,    \* PRESENTATIONS_FOLDER/<id>.json
    jsonFile,    \* JSON_FOLDER/<id>.json
    structFile,  \* JSON_FOLDER/<id>_structure.json
    pptFiles,    \* the .pptx files on disk: path -> slides in the file
    request_counts, \* client address -> times of its admitted requests
    admitted,    \* client address -> the times of all its admitted requests
    apiKey,      \* OPENROUTER_API_KEY is set
    diskOk,      \* open(..., 'w') and json.dump succeed
    now,         \* the clock: the value of the last read
    uuids,       \* the number of uuid4 values drawn so far
    last,        \* the last request and the response it got
    deleted,     \* the ids delete_presentation was asked to delete
    prevCopy,    \* the request before `last`, when it was a successful copy
    bucket,      \* the keys of the objects in the storage bucket
    s3Client,    \* s3_service.client is not None
    inflight     \* the slide_operations requests that are being handled

vars == <<db, heap, presFile, jsonFile, structFile, pptFiles, request_counts, admitted,
          apiKey, diskOk, now, uuids, last, deleted, prevCopy, bucket, s3Client,
          inflight>>

----------------------------------------------------------------------------
(* Bounds of the model *)

\* clock reads (successful mutations and creations) in one behaviour
MaxClock == 2
\* slides of the deck found on disk at start
MaxInitSlides == 2
\* the last second of the clock in the behaviours of SpecRate
MaxRateClock == 62
\* the seconds a client waits at once in the behaviours of SpecRate
ElapseStep == 29

MAX_REQUESTS_PER_MINUTE == 30
RateWindow == 60
MinSlides == 1
MaxSlidesReq == 20

----------------------------------------------------------------------------
(* Values *)

\* a slide dict without the key 'id'
NoKey == "<no id key>"
\* a slide dict without the key 'elements'
NoRef == 0

CopySuffix == " (Copy)"

Min(a, b) == IF a < b THEN a ELSE b

Title(c) == [type |-> "title", content |-> c, items |-> <<>>]
Text(c) == [type |-> "text", content |-> c, items |-> <<>>]
Bullets(it) == [type |-> "bullet_list", content |-> "", items |-> it]
Image == [type |-> "image", content |-> "", items |-> <<>>]

----------------------------------------------------------------------------
(* Objects in memory and their JSON text *)

\* the lists of `h` that some cached slide refers to
UsedRefs(d) ==
    UNION { {d[p].deck[k].elems : k \in 1..Len(d[p].deck)} : p \in DOMAIN d }
        \ {NoRef}

\* `h` without the lists no cached slide refers to any more
Collect(d, h) == [r \in UsedRefs(d) \cap DOMAIN h |-> h[r]]

\* a reference no list of `h` has
NewRef(h) == CHOOSE r \in 1..(Cardinality(DOMAIN h) + 1) : r \notin DOMAIN h

\* slide.get('elements', [])
ElementsOf(h, slide) == IF slide.elems = NoRef THEN <<>> ELSE h[slide.elems]

\* json.dump of one slide: the elements list is written inline
DumpSlide(h, slide) ==
    [id |-> slide.id, slide_number |-> slide.slide_number,
     layout_type |-> slide.layout_type,
     has |-> slide.elems # NoRef, elements |-> ElementsOf(h, slide)]

DumpDeck(h, deck) == [k \in 1..Len(deck) |-> DumpSlide(h, deck[k])]

\* json.dump(presentation, f)
Dump(h, p) ==
    [topic |-> p.topic, gen |-> p.gen, ppt_path |-> p.ppt_path,
     json |-> p.json, deck |-> DumpDeck(h, p.deck),
     created_at |-> p.created_at, updated_at |-> p.updated_at]

\* json.load of a slide array: every elements list is a new object
RECURSIVE LoadDeck(_, _)
LoadDeck(h, fdeck) ==
    IF fdeck = <<>> THEN [deck |-> <<>>, heap |-> h]
    ELSE LET s == Head(fdeck)
             r == IF s.has THEN NewRef(h) ELSE NoRef
             h1 == IF s.has THEN (r :> s.elements) @@ h ELSE h
             rest == LoadDeck(h1, Tail(fdeck))
         IN [deck |-> <<[id |-> s.id, slide_number |-> s.slide_number,
                         layout_type |-> s.layout_type, elems |-> r]>>
                      \o rest.deck,
             heap |-> rest.heap]

\* json.load(f) of a presentation file
Load(h, fp) ==
    LET got == LoadDeck(h, fp.deck)
    IN [pres |-> [topic |-> fp.topic, gen |-> fp.gen, ppt_path |-> fp.ppt_path,
                  json |-> fp.json, deck |-> got.deck,
                  created_at |-> fp.created_at,
                  updated_at |-> fp.updated_at],
        heap |-> got.heap]

\* 'json_data' in presentation and presentation['json_data']
HasJson(p) == p.json

----------------------------------------------------------------------------
(* The slide array as extract_ppt_to_json builds it *)

\* the element lists the parser gives the slides of the deck found at start
InitElements(idx) ==
    IF idx = 0 THEN <<Title("Intro"), Bullets(<<"a", "">>)>>
    ELSE IF idx = 1 THEN <<Text("body"), Image>>
    ELSE <<Title("More")>>

ExtractedSlide(idx, els) ==
    [id |-> "slide_" \o ToString(idx), slide_number |-> idx + 1,
     layout_type |-> IF idx = 0 THEN "title" ELSE "content",
     has |-> TRUE, elements |-> els]

InitDecks ==
    { [k \in 1..n |-> ExtractedSlide(k - 1, InitElements(k - 1))] :
      n \in 1..MaxInitSlides }

\* presentation ids named in requests: "p1" was stored by an earlier run,
\* "u1" is the id of the first presentation created
StoredIds == {"p1"}
FreshIds == {"u1"}
PresIds == StoredIds \cup FreshIds

Clients == {"10.0.0.1", "10.0.0.2"}

NoRequest ==
    [ep |-> "none", op |-> "", pid |-> "", idx |-> 0, hasIdx |-> FALSE,
     sid |-> "", arg |-> "",
     status |-> 0, error |-> "", wrote |-> FALSE, n0 |-> 0, count |-> 0,
     req |-> <<>>, exc |-> ""]

EmptyFn == [x \in {} |-> 0]

\* nothing is cached when the process starts
Started ==
    /\ db = EmptyFn
    /\ heap = EmptyFn
    /\ request_counts = [c \in Clients |-> <<>>]
    /\ admitted = [c \in Clients |-> <<>>]
    /\ now = 0
    /\ uuids = 0
    /\ last = NoRequest
    /\ deleted = {}
    /\ prevCopy = NoRequest
    /\ bucket = {}
    /\ inflight = EmptyFn

\* a first start: no file on disk, an API key configured, a writable disk,
\* no credentials of the storage bucket
Init ==
    /\ Started
    /\ presFile = EmptyFn
    /\ jsonFile = EmptyFn
    /\ structFile = EmptyFn
    /\ pptFiles = EmptyFn
    /\ apiKey = TRUE
    /\ diskOk = TRUE
    /\ s3Client = FALSE

\* a start on the files of an earlier run: the presentation "p1", with its
\* slide array, in the presentations folder, and its .pptx file
InitStored ==
    /\ Started
    /\ \E d \in InitDecks :
          /\ presFile = [p \in StoredIds |->
                           [topic |-> "AI", gen |-> <<>>,
                            ppt_path |-> "old.pptx", json |-> TRUE,
                            deck |-> d, created_at |-> 0, updated_at |-> 0]]
          /\ pptFiles = [f \in {"old.pptx"} |-> Len(d)]
    /\ jsonFile = EmptyFn
    /\ structFile = EmptyFn
    /\ apiKey = TRUE
    /\ diskOk = TRUE
    /\ s3Client = FALSE

----------------------------------------------------------------------------
(* Loading a presentation, as update_slide, export_ppt and slide_operations
   do before they act *)

\* the cache and the heap after the handler's "Load presentation" block, and
\* whether the handler goes on (it answers 404 otherwise)
LoadPresentation(pid) ==
    IF pid \in DOMAIN db
    THEN [found |-> TRUE, db |-> db, heap |-> heap]
    ELSE IF pid \in DOMAIN presFile
         THEN LET got == Load(heap, presFile[pid])
              IN [found |-> TRUE, db |-> (pid :> got.pres) @@ db,
                  heap |-> got.heap]
         ELSE [found |-> FALSE, db |-> db, heap |-> heap]

\* str(e) of the OSError that open(presentation_file, 'w') or json.dump
\* raises when the file cannot be written
DiskErrors ==
    {"[Errno 28] No space left on device", "[Errno 13] Permission denied"}

\* the disk stops taking writes
DiskFails ==
    /\ diskOk
    /\ db # EmptyFn
    /\ diskOk' = FALSE
    /\ last' = [NoRequest EXCEPT !.ep = "disk fails"]
    /\ prevCopy' = NoRequest
    /\ UNCHANGED <<db, heap, presFile, jsonFile, structFile, pptFiles,
                   request_counts, admitted, bucket, s3Client, inflight, apiKey, now, uuids, deleted>>

----------------------------------------------------------------------------
(* slide_operations *)

\* MarkCopy with the text and bullet_list branches left out
MarkCopy_TitlesOnly(e) ==
    IF e.type = "title" /\ e.content # ""
    THEN [e EXCEPT !.content = @ \o CopySuffix]
    ELSE e

\* the loop over new_slide.get('elements', []): one element after it
MarkCopy(e) ==
    IF e.type \in {"title", "text"} /\ e.content # ""
    THEN [e EXCEPT !.content = @ \o CopySuffix]
    ELSE IF e.type = "bullet_list" /\ e.items # <<>>
         THEN [e EXCEPT !.items = [k \in 1..Len(@) |-> @[k] \o CopySuffix]]
         ELSE e

\* f"slide_{int(datetime.now().timestamp())}_{str(uuid.uuid4())[:8]}"
NewSlideId(time, token) ==
    "slide_" \o ToString(time) \o "_" \o ToString(token)

\* the clone: {**slide_to_copy, 'id': ..., 'slide_number': len(slides) + 1}
NewSlide(slide_to_copy, slides, time, token) ==
    [slide_to_copy EXCEPT !.id = NewSlideId(time, token),
                          !.slide_number = Len(slides) + 1]

\* the position from 1 of slides[i]: Python counts from 0, and from the end
\* when i is negative
PyPos(slides, i) == IF i < 0 THEN Len(slides) + i + 1 ELSE i + 1

\* Insert as slides.append(x)
Insert_AtEnd(slides, at, x) == Append(slides, x)

\* slides.insert(at, x): before the element at `at`, at the ends when `at`
\* lies outside the list
Insert(slides, at, x) ==
    LET k == IF at < 0 THEN IF Len(slides) + at < 0 THEN 0
                            ELSE Len(slides) + at
             ELSE Min(at, Len(slides))
    IN SubSeq(slides, 1, k) \o <<x>> \o SubSeq(slides, k + 1, Len(slides))

\* slides.pop(at)
Pop(slides, at) ==
    LET k == PyPos(slides, at)
    IN SubSeq(slides, 1, k - 1) \o SubSeq(slides, k + 1, Len(slides))

\* Renumber with the loop left out
Renumber_None(slides) == slides

\* for i, slide in enumerate(slides): slide['slide_number'] = i + 1
Renumber(slides) ==
    [k \in 1..Len(slides) |-> [slides[k] EXCEPT !.slide_number = k]]

\* the elements lists after the clone's elements were marked: the clone
\* shares its list with slide_to_copy
MarkedHeap(h, new_slide) ==
    IF new_slide.elems = NoRef THEN h
    ELSE [h EXCEPT ![new_slide.elems] =
                       [k \in 1..Len(@) |-> MarkCopy(@[k])]]

\* the 'copy' branch: the slide array and the heap after it
CopySlide(h, slides, slide_index, time, token) ==
    LET new_slide == NewSlide(slides[PyPos(slides, slide_index)], slides,
                              time, token)
    IN [slides |-> Renumber(Insert(slides, slide_index + 1, new_slide)),
        heap |-> MarkedHeap(h, new_slide)]

\* DeleteSlide without the renumbering
DeleteSlide_NoRenumber(slides, slide_index) == Pop(slides, slide_index)

\* the 'delete' branch after its check
DeleteSlide(slides, slide_index) == Renumber(Pop(slides, slide_index))

\* InvalidIndex without the test for a negative index
InvalidIndex_UpperOnly(slides, slide_index) == slide_index >= Len(slides)

\* if slide_index < 0 or slide_index >= len(slides)
InvalidIndex(slides, slide_index) ==
    slide_index < 0 \/ slide_index >= Len(slides)

\* CannotDelete with < for <=, and with the check left out
CannotDelete_Empty(slides) == Len(slides) < 1
CannotDelete_Never(slides) == FALSE

\* if len(slides) <= 1
CannotDelete(slides) == Len(slides) <= 1

CannotDeleteText ==
    "Cannot delete slide. Presentation must have at least one slide."

\* the timestamp left as it was
Touch_Never(presentation, t) == presentation

\* presentation['updated_at'] = datetime.now().isoformat()
Touch(presentation, t) == [presentation EXCEPT !.updated_at = t]

\* not all([operation, presentation_id, slide_index]): index 0 counts as
\* missing
MissingFields_ZeroIsMissing(operation, presentation_id, slide_index, hasIdx) ==
    operation = "" \/ presentation_id = "" \/ ~hasIdx \/ slide_index = 0

\* not all([operation, presentation_id, slide_index is not None])
MissingFields(operation, presentation_id, slide_index, hasIdx) ==
    operation = "" \/ presentation_id = "" \/ ~hasIdx

\* what `last` keeps of a request and its response: the endpoint, the
\* operation or export format, the presentation id, the slide index, the
\* slide id and the payload of an update, the status and the message, whether
\* a file was written, the slides before and the slide_count answered; `req`
\* is the body of a create_presentation request, with the length of the
\* stripped topic for the topic, and `exc` the text of the
\* exception the handler caught, both set by the handlers that have them
Answer(ep, op, pid, idx, hasIdx, sid, arg, status, error, wrote, n0, count) ==
    [ep |-> ep, op |-> op, pid |-> pid, idx |-> idx, hasIdx |-> hasIdx,
     sid |-> sid, arg |-> arg, status |-> status, error |-> error,
     wrote |-> wrote, n0 |-> n0, count |-> count, req |-> <<>>, exc |-> ""]

\* the slide array a request on `pid` finds, <<>> when there is none
SlidesSeen(pid) ==
    LET ld == LoadPresentation(pid)
    IN IF ld.found /\ HasJson(ld.db[pid]) THEN ld.db[pid].deck ELSE <<>>

\* the request bodies tried: every operation with every index from one
\* below to one past the slide array, and one body for each missing field
SlideRequests ==
    UNION { { [operation |-> o, presentation_id |-> p, slide_index |-> i,
               hasIdx |-> TRUE] :
              o \in {"copy", "delete"}, i \in -1..Len(SlidesSeen(p)) }
            \cup
            { [operation |-> "move", presentation_id |-> p, slide_index |-> i,
               hasIdx |-> TRUE] : i \in {-1, 0} } : p \in PresIds }
    \cup { [operation |-> "", presentation_id |-> "p1", slide_index |-> 0,
            hasIdx |-> TRUE],
           [operation |-> "copy", presentation_id |-> "", slide_index |-> 0,
            hasIdx |-> TRUE],
           [operation |-> "delete", presentation_id |-> "p1",
            slide_index |-> 0, hasIdx |-> FALSE] }

\* the request before, kept when it was a copy that succeeded
Remembered ==
    IF last.ep = "slide_operations" /\ last.op = "copy" /\ last.status = 200
    THEN last ELSE NoRequest

SlideOperations ==
    \E data \in SlideRequests :
    LET operation == data.operation
        presentation_id == data.presentation_id
        slide_index == data.slide_index
        hasIdx == data.hasIdx
        Reply(status, error, wrote, n0, count) ==
            Answer("slide_operations", operation, presentation_id,
                   slide_index, hasIdx, "", "", status, error, wrote, n0,
                   count)
        ld == LoadPresentation(presentation_id)
        presentation == ld.db[presentation_id]
        slides == presentation.deck
        n == Len(slides)
        Rejected(status, error, n0) ==
            /\ db' = ld.db
            /\ heap' = ld.heap
            /\ last' = Reply(status, error, FALSE, n0, 0)
            /\ UNCHANGED <<presFile, now, uuids>>
        Mutated(new_slides, new_heap, drew, message) ==
            LET p1 == Touch([presentation EXCEPT !.deck = new_slides],
                            now + 1)
                d1 == [ld.db EXCEPT ![presentation_id] = p1]
                h1 == Collect(d1, new_heap)
            IN /\ db' = d1
               /\ heap' = h1
               /\ now' = now + 1
               /\ uuids' = uuids + drew
               /\ IF diskOk
                  THEN /\ presFile' = (presentation_id :> Dump(h1, p1))
                                          @@ presFile
                       /\ last' = Reply(200, message, TRUE, n,
                                        Len(new_slides))
                  ELSE \E e \in DiskErrors :
                       /\ presFile' = presFile
                       /\ last' = [Reply(500, "Failed to save changes",
                                         FALSE, n, 0) EXCEPT !.exc = e]
    IN
    /\ now < MaxClock
    /\ prevCopy' = Remembered
    /\ UNCHANGED <<jsonFile, structFile, pptFiles, request_counts, admitted, bucket, s3Client, inflight, deleted, apiKey,
                   diskOk>>
    /\ IF MissingFields(operation, presentation_id, slide_index, hasIdx)
       THEN /\ last' = Reply(400, "Missing required fields: operation, presentation_id, slide_index", FALSE, 0, 0)
            /\ UNCHANGED <<db, heap, presFile, now, uuids>>
       ELSE IF ~ld.found
       THEN Rejected(404, "Presentation not found", 0)
       ELSE IF ~HasJson(presentation)
       THEN Rejected(404, "Presentation data not found", 0)
       ELSE IF InvalidIndex(slides, slide_index)
       THEN Rejected(400, "Invalid slide index", n)
       ELSE IF operation = "copy"
       THEN LET c == CopySlide(ld.heap, slides, slide_index, now + 1,
                               uuids + 1)
            IN Mutated(c.slides, c.heap, 1, "Slide copied successfully")
       ELSE IF operation = "delete"
       THEN IF CannotDelete(slides)
            THEN Rejected(400, "Cannot delete slide. Presentation must have at least one slide.", n)
            ELSE Mutated(DeleteSlide(slides, slide_index), ld.heap, 0,
                         "Slide deleted successfully")
       ELSE Rejected(400, "Invalid operation. Use \"copy\" or \"delete\"", n)

----------------------------------------------------------------------------
(* update_slide *)

\* the slide_data bodies tried, by name: an edit of the first slide, a slide
\* with another id and number and with empty texts, a slide without the
\* keys 'id' and 'elements', and the empty object
SlidePayloads == {"edit", "other", "bare", "empty"}

PayloadSlide(arg) ==
    IF arg = "edit"
    THEN [id |-> "slide_0", slide_number |-> 1, layout_type |-> "title",
          has |-> TRUE, elements |-> <<Title("Edited")>>]
    ELSE IF arg = "other"
    THEN [id |-> "slide_1", slide_number |-> 7, layout_type |-> "content",
          has |-> TRUE, elements |-> <<Text(""), Bullets(<<>>)>>]
    ELSE [id |-> NoKey, slide_number |-> 0, layout_type |-> "",
          has |-> FALSE, elements |-> <<>>]

\* the position (from 1) where the loop over the slides stops: the first
\* slide that has no 'id' (slide['id'] raises KeyError) or whose id is
\* slide_id; 0 when the loop runs to its end
LoopStop(slides, slide_id) ==
    LET hits == {k \in 1..Len(slides) :
                   slides[k].id = NoKey \/ slides[k].id = slide_id}
    IN IF hits = {} THEN 0 ELSE CHOOSE k \in hits : \A j \in hits : k <= j

\* ReplaceSlide as slides[0] = slide_data
ReplaceSlide_First(h, slides, k, slide_data) ==
    LET got == LoadDeck(h, <<slide_data>>)
    IN [slides |-> [slides EXCEPT ![1] = got.deck[1]], heap |-> got.heap]

\* slides[i] = slide_data, the payload being a new object
ReplaceSlide(h, slides, k, slide_data) ==
    LET got == LoadDeck(h, <<slide_data>>)
    IN [slides |-> [slides EXCEPT ![k] = got.deck[1]], heap |-> got.heap]

UpdateRequests ==
    { [presentation_id |-> "p1", slide_id |-> sid, slide_data |-> a] :
      sid \in {"slide_0", "slide_1", "slide_9"},
      a \in SlidePayloads \ {"empty"} }
    \cup { [presentation_id |-> p, slide_id |-> "slide_0",
            slide_data |-> "edit"] : p \in PresIds \cup {""} }
    \cup { [presentation_id |-> "p1", slide_id |-> "", slide_data |-> "edit"],
           [presentation_id |-> "p1", slide_id |-> "slide_0",
            slide_data |-> "empty"] }

UpdateSlide ==
    \E data \in UpdateRequests :
    LET presentation_id == data.presentation_id
        slide_id == data.slide_id
        Reply(status, error, wrote, n0) ==
            Answer("update_slide", "", presentation_id, 0, FALSE, slide_id,
                   data.slide_data, status, error, wrote, n0, 0)
        ld == LoadPresentation(presentation_id)
        presentation == ld.db[presentation_id]
        slides == presentation.deck
        stop == IF HasJson(presentation) THEN LoopStop(slides, slide_id)
                ELSE 0
        upd == IF stop = 0 THEN [slides |-> slides, heap |-> ld.heap]
               ELSE ReplaceSlide(ld.heap, slides, stop,
                                 PayloadSlide(data.slide_data))
        p1 == Touch([presentation EXCEPT !.deck = upd.slides], now + 1)
        d1 == [ld.db EXCEPT ![presentation_id] = p1]
        h1 == Collect(d1, upd.heap)
    IN
    /\ now < MaxClock
    /\ prevCopy' = Remembered
    /\ UNCHANGED <<jsonFile, structFile, pptFiles, request_counts, admitted, bucket, s3Client, inflight, deleted, apiKey,
                   diskOk, uuids>>
    /\ IF presentation_id = "" \/ slide_id = "" \/ data.slide_data = "empty"
       THEN /\ last' = Reply(400, "Missing required fields: presentation_id, slide_id, slide_data", FALSE, 0)
            /\ UNCHANGED <<db, heap, presFile, now>>
       ELSE IF ~ld.found
       THEN /\ last' = Reply(404, "Presentation not found", FALSE, 0)
            /\ UNCHANGED <<db, heap, presFile, now>>
       ELSE IF stop # 0 /\ slides[stop].id = NoKey
       THEN \* KeyError raised by slide['id']
            /\ db' = ld.db
            /\ heap' = ld.heap
            /\ last' = [Reply(500, "Error updating slide: " \o "'id'", FALSE,
                              Len(slides)) EXCEPT !.exc = "'id'"]
            /\ UNCHANGED <<presFile, now>>
       ELSE /\ db' = d1
            /\ heap' = h1
            /\ now' = now + 1
            /\ IF diskOk
               THEN /\ presFile' = (presentation_id :> Dump(h1, p1))
                                       @@ presFile
                    /\ last' = Reply(200, "Slide updated successfully", TRUE,
                                     Len(slides))
               ELSE \E e \in DiskErrors :
                    /\ presFile' = presFile
                    /\ last' = [Reply(500, "Error updating slide: " \o e,
                                      FALSE, Len(slides)) EXCEPT !.exc = e]

----------------------------------------------------------------------------
(* The process stops and starts again: what is in memory is lost *)

Restart ==
    /\ db # EmptyFn
    /\ db' = EmptyFn
    /\ heap' = EmptyFn
    /\ request_counts' = [c \in Clients |-> <<>>]
    /\ last' = Answer("restart", "", "", 0, FALSE, "", "", 0, "", FALSE, 0, 0)
    /\ prevCopy' = NoRequest
    /\ UNCHANGED <<presFile, jsonFile, structFile, pptFiles, deleted, apiKey,
                   diskOk, now, uuids, admitted, bucket,
                   s3Client, inflight>>

----------------------------------------------------------------------------
(* create_presentation *)

\* rate_limit_check with `>` for `>=`
rate_limit_check_OneMore(counts, client_ip, t) ==
    LET recent == SelectSeq(counts[client_ip],
                            LAMBDA req_time : t - req_time < RateWindow)
    IN IF Len(recent) > MAX_REQUESTS_PER_MINUTE
       THEN [ok |-> FALSE, counts |-> [counts EXCEPT ![client_ip] = recent]]
       ELSE [ok |-> TRUE,
             counts |-> [counts EXCEPT ![client_ip] = Append(recent, t)]]

\* rate_limit_check recording the request before it counts
rate_limit_check_RecordsRejected(counts, client_ip, t) ==
    LET recent == SelectSeq(counts[client_ip],
                            LAMBDA req_time : t - req_time < RateWindow)
    IN [ok |-> Len(recent) < MAX_REQUESTS_PER_MINUTE,
        counts |-> [counts EXCEPT ![client_ip] = Append(recent, t)]]

\* rate_limit_check(client_ip) at time t: whether the request is admitted,
\* and request_counts after it
rate_limit_check(counts, client_ip, t) ==
    LET recent == SelectSeq(counts[client_ip],
                            LAMBDA req_time : t - req_time < RateWindow)
    IN IF Len(recent) >= MAX_REQUESTS_PER_MINUTE
       THEN [ok |-> FALSE, counts |-> [counts EXCEPT ![client_ip] = recent]]
       ELSE [ok |-> TRUE,
             counts |-> [counts EXCEPT ![client_ip] = Append(recent, t)]]

\* a topic is a sequence of characters; str.strip() drops the blanks at
\* both ends
RECURSIVE LStrip(_)
LStrip(cs) == IF cs # <<>> /\ Head(cs) = " " THEN LStrip(Tail(cs)) ELSE cs

RECURSIVE RStrip(_)
RStrip(cs) ==
    IF cs # <<>> /\ cs[Len(cs)] = " " THEN RStrip(SubSeq(cs, 1, Len(cs) - 1))
    ELSE cs

Strip(cs) == RStrip(LStrip(cs))

\* the characters as one string
RECURSIVE Str(_)
Str(cs) ==
    IF cs = <<>> THEN ""
    ELSE IF Len(cs) = 1 THEN cs[1]
    ELSE LET h == Len(cs) \div 2
         IN Str(SubSeq(cs, 1, h)) \o Str(SubSeq(cs, h + 1, Len(cs)))

\* a slide record of the content generator: {title, content[], description};
\* has_title and has_content tell whether the dict has the key
SlideRecord(title) ==
    [title |-> title, has_title |-> TRUE, has_content |-> TRUE]

\* the titles of the slides create_fallback_slides builds
FallbackTitle(topic, i) ==
    IF i = 1 THEN "Key Concepts of " \o topic
    ELSE IF i = 2 THEN "Applications and Use Cases"
    ELSE IF i = 3 THEN "Challenges and Considerations"
    ELSE IF i = 4 THEN "Future Trends and Opportunities"
    ELSE "Additional Insights on " \o topic

\* the loop bound min(num_slides, 6) of create_fallback_slides
FallbackCap == 6

create_fallback_slides(topic, num_slides) ==
    <<SlideRecord("Introduction to " \o topic)>>
    \o [i \in 1..(Min(num_slides, FallbackCap) - 1) |->
          SlideRecord(FallbackTitle(topic, i))]
    \o <<SlideRecord("Summary and Conclusion")>>

\* what the call of the LLM API gives: a 200 whose content is a JSON array
\* of well-formed records ("list"), of records without 'title' ("untitled")
\* or without 'content' ("no_content"), the empty array ("empty"), a JSON
\* object ("object") or text that is not JSON ("text"); another status
\* ("http_error"); an exception of requests.post ("exception")
LlmOutcomes ==
    {"list", "untitled", "no_content", "empty", "object", "text",
     "http_error", "exception"}

\* json.loads(content) when it is a list
ParsedList(llm) ==
    IF llm = "list"
    THEN <<SlideRecord("What is it"), SlideRecord("Why it matters")>>
    ELSE IF llm = "untitled"
    THEN <<[title |-> "", has_title |-> FALSE, has_content |-> TRUE]>>
    ELSE IF llm = "no_content"
    THEN <<[title |-> "Only a title", has_title |-> TRUE,
            has_content |-> FALSE]>>
    ELSE <<>>

\* a Python value that is None or a list
PyNone == [none |-> TRUE, list |-> <<>>]
PyList(l) == [none |-> FALSE, list |-> l]
\* `not v`
Falsy(v) == v.none \/ v.list = <<>>

\* generate_ai_content returning whatever list the LLM sent, [] included
generate_ai_content_KeepsEmpty(topic, num_slides, api_key, llm) ==
    IF ~api_key THEN PyNone
    ELSE IF llm \in {"list", "untitled", "no_content", "empty"}
    THEN PyList(ParsedList(llm))
    ELSE PyList(create_fallback_slides(topic, num_slides))

\* generate_ai_content: None without a key; the parsed list when the LLM
\* answered a non-empty JSON array; the fallback slides in every other case
generate_ai_content(topic, num_slides, api_key, llm) ==
    IF ~api_key THEN PyNone
    ELSE IF llm \in {"list", "untitled", "no_content"}
    THEN PyList(ParsedList(llm))
    ELSE PyList(create_fallback_slides(topic, num_slides))

\* topic.replace(' ', '_').lower(), for the characters of Topics
PathChar(c) ==
    IF c = " " THEN "_" ELSE IF c = "A" THEN "a" ELSE IF c = "I" THEN "i"
    ELSE c

PptPath(cs, t) ==
    "generated_ppts/presentation_" \o Str([k \in 1..Len(cs) |-> PathChar(cs[k])]) \o "_"
        \o ToString(t) \o ".pptx"

\* the slides of the file: the title slide, one slide for each record, the
\* thank-you slide
PptSlides(slides_data) == Len(slides_data) + 2

\* create_powerpoint: the path of the file saved, None when a step raised:
\* slide_data['title'] or slide_data['content'] of a record without the key,
\* or prs.save (`saved` is false); `cs` are the characters of the topic
create_powerpoint(slides_data, cs, t, saved) ==
    IF /\ \A k \in 1..Len(slides_data) :
             slides_data[k].has_title /\ slides_data[k].has_content
       /\ saved
    THEN [none |-> FALSE, path |-> PptPath(cs, t)]
    ELSE [none |-> TRUE, path |-> ""]

\* the topic of validate_presentation_request's limit, never called
MaxTopicLen == 200

\* the topics tried, as characters: blank, a short one with a blank to strip,
\* one of MaxTopicLen + 1 characters
LongTopic == [k \in 1..(MaxTopicLen + 1) |-> "x"]
Topics == { <<" ">>, <<"A", "I", " ">>, LongTopic }
SlideCounts == {0, 3, 21}

\* the request bodies tried: the short topic with every slide count, with
\* every answer of the LLM and with a failing save; the other topics; no body
CreateRequests ==
    { [hasData |-> TRUE, topic |-> <<"A", "I", " ">>, slides |-> n,
       llm |-> "list", pptOk |-> TRUE] : n \in SlideCounts }
    \cup { [hasData |-> TRUE, topic |-> <<"A", "I", " ">>, slides |-> 3,
            llm |-> o, pptOk |-> TRUE] : o \in LlmOutcomes }
    \cup { [hasData |-> TRUE, topic |-> t, slides |-> 3, llm |-> "list",
            pptOk |-> TRUE] : t \in Topics }
    \cup { [hasData |-> TRUE, topic |-> <<"A", "I", " ">>, slides |-> 3,
            llm |-> "list", pptOk |-> FALSE] }
    \cup { [hasData |-> FALSE, topic |-> <<>>, slides |-> 5, llm |-> "list",
            pptOk |-> TRUE] }

\* the handler, for the request `data` of the client `client_ip`
create_presentation(client_ip, data) ==
    LET t == now + 1
        rl == rate_limit_check(request_counts, client_ip, t)
        topic == Str(Strip(data.topic))
        num_slides == data.slides
        slides_data == generate_ai_content(topic, num_slides, apiKey,
                                           data.llm)
        ppt == create_powerpoint(slides_data.list, Strip(data.topic), t,
                                 data.pptOk /\ diskOk)
        presentation_id == "u" \o ToString(uuids + 1)
        presentation_data ==
            [topic |-> topic, gen |-> slides_data.list,
             ppt_path |-> ppt.path, json |-> FALSE, deck |-> <<>>,
             created_at |-> t, updated_at |-> 0]
        Reply(pid, status, error, wrote, count) ==
            [Answer("create_presentation", "", pid, 0, FALSE, "", "", status,
                    error, wrote, 0, count)
             EXCEPT !.req = [data EXCEPT !.topic = Len(Strip(data.topic))],
                    !.arg = client_ip]
        Refused(status, error) ==
            /\ last' = Reply("", status, error, FALSE, 0)
            /\ UNCHANGED <<db, jsonFile, pptFiles, uuids>>
    IN
    /\ now' = t
    /\ request_counts' = rl.counts
    /\ admitted' = IF rl.ok THEN [admitted EXCEPT ![client_ip] = Append(@, t)]
                   ELSE admitted
    /\ prevCopy' = Remembered
    /\ UNCHANGED <<heap, presFile, structFile, deleted, apiKey, diskOk, bucket,
                   s3Client, inflight>>
    /\ IF ~rl.ok
       THEN Refused(429, "Rate limit exceeded. Please try again later.")
       ELSE IF ~data.hasData
       THEN Refused(400, "No data provided")
       ELSE IF topic = ""
       THEN Refused(400, "Topic is required")
       ELSE IF num_slides < MinSlides \/ num_slides > MaxSlidesReq
       THEN Refused(400, "Number of slides must be between 1 and 20")
       ELSE IF ~apiKey
       THEN Refused(500, "AI service not configured")
       ELSE IF Falsy(slides_data)
       THEN Refused(500, "Failed to generate presentation content. Please try again.")
       ELSE IF ppt.none
       THEN Refused(500, "Failed to create presentation file. Please try again.")
       ELSE /\ pptFiles' = (ppt.path :> PptSlides(slides_data.list))
                               @@ pptFiles
            /\ uuids' = uuids + 1
            /\ jsonFile' = (presentation_id :> Dump(heap, presentation_data))
                               @@ jsonFile
            /\ db' = (presentation_id :> presentation_data) @@ db
            /\ last' = Reply(presentation_id, 200,
                             "Presentation created successfully", TRUE,
                             Len(slides_data.list))

CreatePresentation ==
    /\ now < MaxClock
    /\ \E client_ip \in Clients, data \in CreateRequests :
          create_presentation(client_ip, data)

\* Requests in quick succession, one a second, for the rate limiter: the
\* client "10.0.0.1" sends a valid request with a well-formed answer of the
\* LLM as often as the clock allows, the other clients one request each
BurstClient == "10.0.0.1"
BurstClients ==
    {c \in Clients : c = BurstClient \/ admitted[c] = <<>>}
BurstRequests ==
    { [hasData |-> TRUE, topic |-> <<"A", "I", " ">>, slides |-> 3,
       llm |-> "list", pptOk |-> TRUE] }

CreateBurst ==
    /\ now < MaxRateClock
    /\ \E client_ip \in BurstClients, data \in BurstRequests :
          create_presentation(client_ip, data)

\* time passes without a request
Elapse ==
    /\ now + ElapseStep <= MaxRateClock
    /\ now' = now + ElapseStep
    /\ last' = [NoRequest EXCEPT !.ep = "elapse"]
    /\ prevCopy' = NoRequest
    /\ UNCHANGED <<db, heap, presFile, jsonFile, structFile, pptFiles,
                   request_counts, admitted, bucket, s3Client, inflight, apiKey, diskOk, uuids, deleted>>

----------------------------------------------------------------------------
(* get_presentation_json *)

\* the answer: the status and the slides of the json_data answered
GetJsonAnswer(presentation_id) ==
    IF presentation_id \in DOMAIN db /\ HasJson(db[presentation_id])
    THEN [status |-> 200, count |-> Len(db[presentation_id].deck)]
    ELSE IF presentation_id \in DOMAIN structFile
    THEN [status |-> 200, count |-> structFile[presentation_id]]
    ELSE IF /\ presentation_id \in DOMAIN presFile
            /\ presFile[presentation_id].ppt_path \in DOMAIN pptFiles
    THEN [status |-> 200,
          count |-> pptFiles[presFile[presentation_id].ppt_path]]
    ELSE [status |-> 404, count |-> 0]

GetPresentationJson ==
    \E presentation_id \in PresIds :
    LET a == GetJsonAnswer(presentation_id)
    IN /\ now < MaxClock
       /\ last' = Answer("get_presentation_json", "", presentation_id, 0,
                         FALSE, "", "", a.status,
                         IF a.status = 404 THEN "Presentation JSON not found"
                         ELSE "", FALSE, 0, a.count)
       /\ prevCopy' = Remembered
       /\ UNCHANGED <<db, heap, presFile, jsonFile, structFile, pptFiles,
                      request_counts, admitted, bucket, s3Client, inflight, deleted, apiKey, diskOk, now, uuids>>

----------------------------------------------------------------------------
(* export_ppt *)

\* the slides export_as_pdf writes after the title page
PdfSlides(presentation) ==
    IF HasJson(presentation) THEN Len(presentation.deck) ELSE 0

ExportRequests ==
    { [presentationId |-> p, format |-> f] :
      p \in PresIds, f \in {"pptx", "pdf", "odp"} }
    \cup { [presentationId |-> "", format |-> "pptx"] }

ExportPpt ==
    \E data \in ExportRequests :
    LET presentation_id == data.presentationId
        ld == LoadPresentation(presentation_id)
        presentation == ld.db[presentation_id]
        Reply(status, error, count) ==
            Answer("export_ppt", data.format, presentation_id, 0, FALSE, "",
                   "", status, error, FALSE, 0, count)
    IN
    /\ now < MaxClock
    /\ prevCopy' = Remembered
    /\ UNCHANGED <<presFile, jsonFile, structFile, pptFiles, request_counts, admitted, bucket, s3Client, inflight,
                   deleted, apiKey, diskOk, now, uuids>>
    /\ IF presentation_id = ""
       THEN /\ last' = Reply(400, "presentation_id is required", 0)
            /\ UNCHANGED <<db, heap>>
       ELSE IF ~ld.found
       THEN /\ last' = Reply(404, "Presentation not found", 0)
            /\ UNCHANGED <<db, heap>>
       ELSE /\ db' = ld.db
            /\ heap' = ld.heap
            /\ last' =
                 IF data.format = "pptx"
                 THEN IF presentation.ppt_path \in DOMAIN pptFiles
                      THEN Reply(200, "", pptFiles[presentation.ppt_path])
                      ELSE Reply(404, "PowerPoint file not found", 0)
                 ELSE IF data.format = "pdf"
                 THEN Reply(200, "", PdfSlides(presentation))
                 ELSE Reply(400, "Unsupported export format", 0)

----------------------------------------------------------------------------
(* delete_presentation *)

Without(f, x) == [y \in DOMAIN f \ {x} |-> f[y]]

\* the local files delete_presentation unlinks
DeleteLocalFiles(presentation_id) ==
    /\ presFile' = Without(presFile, presentation_id)
    /\ structFile' = Without(structFile, presentation_id)
    /\ UNCHANGED jsonFile

DeletePresentation ==
    \E presentation_id \in PresIds :
    /\ now < MaxClock
    /\ db' = Without(db, presentation_id)
    /\ heap' = Collect(db', heap)
    /\ DeleteLocalFiles(presentation_id)
    /\ last' = Answer("delete_presentation", "", presentation_id, 0, FALSE,
                      "", "", 200,
                      "Presentation " \o presentation_id
                          \o " deleted successfully", FALSE, 0, 0)
    /\ deleted' = deleted \cup {presentation_id}
    /\ prevCopy' = Remembered
    /\ UNCHANGED <<pptFiles, request_counts, admitted, bucket, s3Client, inflight, apiKey, diskOk, now, uuids>>

----------------------------------------------------------------------------
\* the editing requests on a stored presentation
NextEdit ==
    \/ SlideOperations
    \/ UpdateSlide
    \/ Restart

SpecEdit == InitStored /\ [][NextEdit]_vars

Next ==
    \/ CreatePresentation
    \/ GetPresentationJson
    \/ UpdateSlide
    \/ ExportPpt
    \/ DeletePresentation
    \/ SlideOperations
    \/ Restart

Spec == Init /\ [][Next]_vars

\* calls of generate_ai_content: a topic, a slide count of the range the
\* handler lets through, a credential that is set or empty, and what the
\* call of the LLM API gives
GenTopics == {"AI", "Renewable Energy"}
GenCounts == MinSlides..MaxSlidesReq

GenerateAiContent ==
    \E topic \in GenTopics, num_slides \in GenCounts, api_key \in BOOLEAN,
       llm \in LlmOutcomes :
       /\ last' = [ep |-> "generate_ai_content", topic |-> topic,
                   num_slides |-> num_slides, api_key |-> api_key,
                   llm |-> llm,
                   result |-> generate_ai_content(topic, num_slides, api_key,
                                                  llm)]
       /\ UNCHANGED <<db, heap, presFile, jsonFile, structFile, pptFiles,
                      request_counts, admitted, bucket, s3Client, inflight, apiKey, diskOk, now, uuids, deleted,
                      prevCopy>>

SpecGenerate == Init /\ [][GenerateAiContent]_vars

\* requests to create_presentation over more than a minute
NextRate ==
    \/ CreateBurst
    \/ Elapse

SpecRate == Init /\ [][NextRate]_vars

\* the editing requests on a stored presentation whose disk stops taking
\* writes at some time
NextFault ==
    \/ SlideOperations
    \/ UpdateSlide
    \/ DiskFails
    \/ Restart

SpecFault == InitStored /\ [][NextFault]_vars

\* the editing requests on a stored presentation, and its export
NextExport ==
    \/ SlideOperations
    \/ UpdateSlide
    \/ ExportPpt

SpecExport == InitStored /\ [][NextExport]_vars

----------------------------------------------------------------------------
(* The storage mirror: class S3Service of modules/s3_service.py *)

\* a remote call goes through to the bucket ("ok"), raises a ClientError
\* with an error code other than 404 ("403"), or raises another exception
\* ("timeout")
RemoteOutcomes == {"ok", "403", "timeout"}
Raises(out) == out # "ok"

\* the day of datetime.now().strftime("%Y/%m/%d")
UploadDay == "2026/11/01"

\* filename.replace(' ', '_').replace('/', '_'), for the names tried
SafeFilename(filename) ==
    IF filename = "my deck.pptx" THEN "my_deck.pptx" ELSE filename

\* _generate_file_key: f"{file_type}/{presentation_id}/{timestamp}/{name}"
GenerateFileKey(presentation_id, filename, file_type) ==
    [file_type |-> file_type, presentation_id |-> presentation_id,
     day |-> UploadDay, filename |-> SafeFilename(filename)]

\* an Optional[str]: None, or the URL of the object with this key
NoUrl == [none |-> TRUE, key |-> GenerateFileKey("", "", "")]
UrlOf(key) == [none |-> FALSE, key |-> key]

\* upload_file: the URL or None, and the bucket after it; `readable` tells
\* whether open(file_path, 'rb') succeeds, `out` what upload_fileobj does
upload_file(b, available, readable, presentation_id, filename, file_type, out) ==
    LET file_key == GenerateFileKey(presentation_id, filename, file_type)
    IN IF ~available \/ ~readable \/ Raises(out)
       THEN [result |-> NoUrl, bucket |-> b]
       ELSE [result |-> UrlOf(file_key), bucket |-> b \cup {file_key}]

\* upload_file_data: `out` is what put_object does
upload_file_data(b, available, presentation_id, filename, file_type, out) ==
    LET file_key == GenerateFileKey(presentation_id, filename, file_type)
    IN IF ~available \/ Raises(out)
       THEN [result |-> NoUrl, bucket |-> b]
       ELSE [result |-> UrlOf(file_key), bucket |-> b \cup {file_key}]

\* download_file: client.download_file raises a ClientError when the bucket
\* has no object with the key
download_file(b, available, file_key, out) ==
    available /\ ~Raises(out) /\ file_key \in b

\* delete_file: delete_object succeeds also when there is no such object
delete_file(b, available, file_key, out) ==
    IF ~available \/ Raises(out)
    THEN [result |-> FALSE, bucket |-> b]
    ELSE [result |-> TRUE, bucket |-> b \ {file_key}]

\* the objects under the prefix f"presentations/{presentation_id}/"
UnderPrefix(b, presentation_id) ==
    {k \in b : k.file_type = "presentations"
               /\ k.presentation_id = presentation_id}

\* list_presentation_files: the keys of the files listed, [] when the
\* service is not available or list_objects_v2 raised
list_presentation_files(b, available, presentation_id, out) ==
    IF ~available \/ Raises(out) THEN {}
    ELSE UnderPrefix(b, presentation_id)

\* delete_presentation_files: `listOut` is what list_objects_v2 does inside
\* list_presentation_files, `delOut` what delete_objects does
delete_presentation_files(b, available, presentation_id, listOut, delOut) ==
    IF ~available THEN [result |-> FALSE, bucket |-> b]
    ELSE LET files == list_presentation_files(b, available, presentation_id,
                                              listOut)
         IN IF files # {}
            THEN IF Raises(delOut) THEN [result |-> FALSE, bucket |-> b]
                 ELSE [result |-> TRUE, bucket |-> b \ files]
            ELSE [result |-> TRUE, bucket |-> b]

\* get_file_url: head_object raises a ClientError with code 404 when there
\* is no such object
get_file_url(b, available, file_key, out) ==
    IF ~available \/ Raises(out) \/ file_key \notin b THEN NoUrl
    ELSE UrlOf(file_key)

\* os.path.basename(presentation_data['ppt_path'])
PptBasename == "deck.pptx"

\* upload_presentation_data: the keys of the dict returned ('json_url',
\* 'ppt_url') and the bucket after it; `dumps` tells whether json.dumps
\* succeeds, `hasPpt` whether the data has a ppt_path that exists
upload_presentation_data(b, available, presentation_id, dumps, hasPpt, jsonOut, pptOut) ==
    IF ~dumps THEN [result |-> {}, bucket |-> b]
    ELSE LET j == upload_file_data(b, available, presentation_id,
                                   presentation_id \o "_structure.json",
                                   "presentations", jsonOut)
             q == IF hasPpt
                  THEN upload_file(j.bucket, available, TRUE, presentation_id,
                                   PptBasename, "presentations", pptOut)
                  ELSE [result |-> NoUrl, bucket |-> j.bucket]
         IN [result |-> (IF j.result.none THEN {} ELSE {"json_url"})
                        \cup (IF q.result.none THEN {} ELSE {"ppt_url"}),
             bucket |-> q.bucket]

\* the ids, names and keys the calls are tried with
MirrorIds == {"p1", "u1"}
MirrorKeys ==
    { GenerateFileKey(p, "my deck.pptx", t) :
        p \in MirrorIds, t \in {"presentations", "images"} }
    \cup { GenerateFileKey(p, PptBasename, "presentations") : p \in MirrorIds }
    \cup { GenerateFileKey("p1", "notes.json", "presentations") }

\* what `last` keeps of a call: the method, whether the service was
\* available, whether a remote call the method made raised, whether every
\* remote call it made raised, and the value returned in the field of its
\* type: `url` (Optional[str]), `done` (bool), `files` (list), `urls` (dict)
Called(op, pid, errored, allErrored, url, done, files, urls) ==
    [ep |-> "s3_service", op |-> op, pid |-> pid, available |-> s3Client,
     errored |-> errored, allErrored |-> allErrored,
     url |-> url, done |-> done, files |-> files, urls |-> urls]

MirrorFrame ==
    UNCHANGED <<db, heap, presFile, jsonFile, structFile, pptFiles,
                request_counts, admitted, apiKey, diskOk, now, uuids,
                deleted, prevCopy, s3Client, inflight>>

UploadFile ==
    \E p \in MirrorIds, t \in {"presentations", "images"},
       readable \in BOOLEAN, out \in RemoteOutcomes :
       LET r == upload_file(bucket, s3Client, readable, p, "my deck.pptx", t,
                            out)
           e == s3Client /\ readable /\ Raises(out)
       IN /\ bucket' = r.bucket
          /\ last' = Called("upload_file", p, e, e, r.result, FALSE, {}, {})
          /\ MirrorFrame

UploadFileData ==
    \E out \in RemoteOutcomes :
       LET r == upload_file_data(bucket, s3Client, "p1", "notes.json",
                                 "presentations", out)
           e == s3Client /\ Raises(out)
       IN /\ bucket' = r.bucket
          /\ last' = Called("upload_file_data", "p1", e, e, r.result, FALSE,
                            {}, {})
          /\ MirrorFrame

DownloadFile ==
    \E k \in MirrorKeys, out \in RemoteOutcomes :
       LET e == s3Client /\ (Raises(out) \/ k \notin bucket)
       IN /\ last' = Called("download_file", k.presentation_id, e, e, NoUrl,
                            download_file(bucket, s3Client, k, out), {}, {})
          /\ UNCHANGED bucket
          /\ MirrorFrame

DeleteFile ==
    \E k \in MirrorKeys, out \in RemoteOutcomes :
       LET r == delete_file(bucket, s3Client, k, out)
           e == s3Client /\ Raises(out)
       IN /\ bucket' = r.bucket
          /\ last' = Called("delete_file", k.presentation_id, e, e, NoUrl,
                            r.result, {}, {})
          /\ MirrorFrame

ListPresentationFiles ==
    \E p \in MirrorIds, out \in RemoteOutcomes :
       LET e == s3Client /\ Raises(out)
       IN /\ last' = Called("list_presentation_files", p, e, e, NoUrl, FALSE,
                            list_presentation_files(bucket, s3Client, p, out),
                            {})
          /\ UNCHANGED bucket
          /\ MirrorFrame

DeletePresentationFiles ==
    \E p \in MirrorIds, listOut \in RemoteOutcomes, delOut \in RemoteOutcomes :
       LET r == delete_presentation_files(bucket, s3Client, p, listOut,
                                          delOut)
           listed == ~Raises(listOut) /\ UnderPrefix(bucket, p) # {}
           e == s3Client /\ (Raises(listOut) \/ (listed /\ Raises(delOut)))
       IN /\ bucket' = r.bucket
          /\ last' = [Called("delete_presentation_files", p, e, e, NoUrl,
                             r.result, {}, {})
                      EXCEPT !.files = UnderPrefix(bucket', p)]
          /\ MirrorFrame

GetFileUrl ==
    \E k \in MirrorKeys, out \in RemoteOutcomes :
       LET e == s3Client /\ (Raises(out) \/ k \notin bucket)
       IN /\ last' = Called("get_file_url", k.presentation_id, e, e,
                            get_file_url(bucket, s3Client, k, out), FALSE,
                            {}, {})
          /\ UNCHANGED bucket
          /\ MirrorFrame

UploadPresentationData ==
    \E p \in MirrorIds, dumps \in BOOLEAN, hasPpt \in BOOLEAN,
       jsonOut \in RemoteOutcomes, pptOut \in RemoteOutcomes :
       LET r == upload_presentation_data(bucket, s3Client, p, dumps, hasPpt,
                                         jsonOut, pptOut)
           made == dumps /\ s3Client
           e == made /\ (Raises(jsonOut) \/ (hasPpt /\ Raises(pptOut)))
           a == made /\ Raises(jsonOut) /\ (hasPpt => Raises(pptOut))
       IN /\ bucket' = r.bucket
          /\ last' = Called("upload_presentation_data", p, e, a, NoUrl, FALSE,
                            {}, r.result)
          /\ MirrorFrame

\* a start with or without the credentials of the bucket
InitMirror ==
    /\ Started
    /\ presFile = EmptyFn
    /\ jsonFile = EmptyFn
    /\ structFile = EmptyFn
    /\ pptFiles = EmptyFn
    /\ apiKey = TRUE
    /\ diskOk = TRUE
    /\ s3Client \in BOOLEAN

NextMirror ==
    \/ UploadFile
    \/ UploadFileData
    \/ DownloadFile
    \/ DeleteFile
    \/ ListPresentationFiles
    \/ DeletePresentationFiles
    \/ GetFileUrl
    \/ UploadPresentationData

SpecMirror == InitMirror /\ [][NextMirror]_vars

----------------------------------------------------------------------------
(* The parser: extract_ppt_to_json *)

\* Text is a sequence of characters; a word (a run of characters that are
\* neither white space nor bullet markers at its ends) stands as one
\* character.  BulletChar is the character U+2022.
BulletChar == "(U+2022)"
BulletMarkers == {BulletChar, "-", "*"}
WhiteSpace == {" ", "\n"}

\* str.lstrip(chars), str.rstrip(chars)
RECURSIVE LStripOf(_, _)
LStripOf(cs, chars) ==
    IF cs # <<>> /\ Head(cs) \in chars THEN LStripOf(Tail(cs), chars) ELSE cs

RECURSIVE RStripOf(_, _)
RStripOf(cs, chars) ==
    IF cs # <<>> /\ cs[Len(cs)] \in chars
    THEN RStripOf(SubSeq(cs, 1, Len(cs) - 1), chars)
    ELSE cs

\* str.strip(): white space off both ends
PyStrip(cs) == RStripOf(LStripOf(cs, WhiteSpace), WhiteSpace)

\* "\n".join(lines)
RECURSIVE JoinLines(_)
JoinLines(lines) ==
    IF lines = <<>> THEN <<>>
    ELSE IF Len(lines) = 1 THEN lines[1]
    ELSE lines[1] \o <<"\n">> \o JoinLines(Tail(lines))

\* text.split("\n"): the paragraphs `text_frame.text = text` makes
RECURSIVE SplitLines(_)
SplitLines(cs) ==
    IF \A k \in 1..Len(cs) : cs[k] # "\n" THEN <<cs>>
    ELSE LET k == CHOOSE i \in 1..Len(cs) :
                     cs[i] = "\n" /\ \A j \in 1..(i - 1) : cs[j] # "\n"
         IN <<SubSeq(cs, 1, k - 1)>> \o SplitLines(SubSeq(cs, k + 1, Len(cs)))

\* a shape of a slide: a text box or an auto shape (both have a text frame)
\* or a picture; `top` is shape.top in tenths of an inch, NoTop when
\* shape.top is None; `paras` are the texts of its paragraphs; `blob` tells
\* whether the image of a picture can be read
NoTop == -1
Shape(kind, top, paras) ==
    [kind |-> kind, top |-> top, paras |-> paras, blob |-> TRUE]

\* shape.text
ShapeText(shape) == JoinLines(shape.paras)

\* an element of the parsed slide
Element(type, content, items) ==
    [type |-> type, content |-> content, items |-> items]

\* the loop over shape.text_frame.paragraphs: is_bullet_list and
\* bullet_items after the paragraphs `paras`, from the values before
RECURSIVE BulletScan(_, _, _)
BulletScan(paras, is_bullet_list, bullet_items) ==
    IF paras = <<>>
    THEN [is_bullet_list |-> is_bullet_list, bullet_items |-> bullet_items]
    ELSE LET text == PyStrip(Head(paras))
         IN IF text = <<>>
            THEN BulletScan(Tail(paras), is_bullet_list, bullet_items)
            ELSE IF Head(text) \in BulletMarkers
            THEN BulletScan(Tail(paras), TRUE,
                            Append(bullet_items,
                                   LStripOf(text, BulletMarkers \cup {" "})))
            ELSE IF is_bullet_list
            THEN BulletScan(Tail(paras), TRUE, Append(bullet_items, text))
            ELSE BulletScan(Tail(paras), FALSE, bullet_items)

\* the upper region: above 3 inches on the first slide, above 2 on the others
TitleRegion(slide_idx) == IF slide_idx = 0 THEN 30 ELSE 20

\* ExtractShape with shape.text for shape.text.strip() as the content
ExtractShape_Unstripped(slide_idx, shape) ==
    IF shape.kind \in {"textbox", "autoshape"}
       /\ PyStrip(ShapeText(shape)) # <<>>
    THEN LET scan == BulletScan(shape.paras, FALSE, <<>>)
         IN IF scan.is_bullet_list /\ scan.bullet_items # <<>>
            THEN [raised |-> FALSE,
                  elements |-> <<Element("bullet_list", <<>>,
                                         scan.bullet_items)>>]
            ELSE IF shape.top = NoTop
            THEN [raised |-> TRUE, elements |-> <<>>]
            ELSE [raised |-> FALSE,
                  elements |->
                    <<Element(IF shape.top < TitleRegion(slide_idx)
                              THEN "title" ELSE "text",
                              ShapeText(shape), <<>>)>>]
    ELSE IF shape.kind = "picture" /\ shape.blob
    THEN [raised |-> FALSE, elements |-> <<Element("image", <<>>, <<>>)>>]
    ELSE [raised |-> FALSE, elements |-> <<>>]

\* the body of `for shape in slide.shapes`: the elements the shape adds to
\* the slide, and whether an exception leaves the loop (shape.top.inches of
\* a shape without a position)
ExtractShape(slide_idx, shape) ==
    IF shape.kind \in {"textbox", "autoshape"}
       /\ PyStrip(ShapeText(shape)) # <<>>
    THEN LET scan == BulletScan(shape.paras, FALSE, <<>>)
         IN IF scan.is_bullet_list /\ scan.bullet_items # <<>>
            THEN [raised |-> FALSE,
                  elements |-> <<Element("bullet_list", <<>>,
                                         scan.bullet_items)>>]
            ELSE IF shape.top = NoTop
            THEN [raised |-> TRUE, elements |-> <<>>]
            ELSE [raised |-> FALSE,
                  elements |->
                    <<Element(IF shape.top < TitleRegion(slide_idx)
                              THEN "title" ELSE "text",
                              PyStrip(ShapeText(shape)), <<>>)>>]
    ELSE IF shape.kind = "picture" /\ shape.blob
    THEN [raised |-> FALSE, elements |-> <<Element("image", <<>>, <<>>)>>]
    ELSE [raised |-> FALSE, elements |-> <<>>]

\* the elements of one slide, and whether a shape of it raised
RECURSIVE ExtractShapes(_, _)
ExtractShapes(slide_idx, shapes) ==
    IF shapes = <<>> THEN [raised |-> FALSE, elements |-> <<>>]
    ELSE LET one == ExtractShape(slide_idx, Head(shapes))
             rest == ExtractShapes(slide_idx, Tail(shapes))
         IN [raised |-> one.raised \/ rest.raised,
             elements |-> one.elements \o rest.elements]

\* extract_ppt_to_json of a file that can be opened: None when an exception
\* was raised anywhere, else the slide array
extract_ppt_to_json(slides) ==
    LET got == [k \in 1..Len(slides) |-> ExtractShapes(k - 1, slides[k])]
    IN IF \E k \in 1..Len(slides) : got[k].raised
       THEN [none |-> TRUE, slides |-> <<>>]
       ELSE [none |-> FALSE,
             slides |-> [k \in 1..Len(slides) |->
                           ExtractedSlide(k - 1, got[k].elements)]]

----------------------------------------------------------------------------
(* The renderer: the shapes create_powerpoint puts on the slides.  A slide
   record is [title, content]: a text and a list of texts. *)

\* paragraphs of the shapes found in a file, slides of a file, and slide
\* records of a list
MaxParas == 3
MaxFileSlides == 2
MaxRecords == 2

\* a rectangle: an auto shape with an empty text frame
Rectangle(top) == Shape("autoshape", top, <<<<>>>>)

\* topic.upper(), for the words of the topics tried
UpperChar(c) == IF c = "ai" THEN "AI" ELSE c
Upper(cs) == [k \in 1..Len(cs) |-> UpperChar(cs[k])]

\* the title slide: three rectangles, the topic, the subtitle, a line
TitleSlide(topic) ==
    <<Rectangle(0), Rectangle(0), Rectangle(0),
      Shape("textbox", 25, SplitLines(Upper(topic))),
      Shape("textbox", 48,
            <<<<"Professional Presentation", " ", BulletChar, " ",
                "November 2026">>>>),
      Rectangle(43)>>

\* the paragraphs of the content box: content_frame.clear() leaves one
\* empty paragraph, each of the first four points is written as "• point"
PointsShown == 4
ContentParas(content) ==
    IF content = <<>> THEN <<<<>>>>
    ELSE [i \in 1..Min(Len(content), PointsShown) |->
            <<BulletChar, " ">> \o content[i]]

\* a content slide: three rectangles, the title box, the picture when an
\* image was fetched, the content box
ContentSlide(slide_data, image) ==
    <<Rectangle(0), Rectangle(4), Rectangle(4),
      Shape("textbox", 6, SplitLines(slide_data.title))>>
    \o (IF image THEN <<Shape("picture", 18, <<>>)>> ELSE <<>>)
    \o <<Shape("textbox", 18, ContentParas(slide_data.content))>>

\* create_thank_you_slide
ThankYouSlide(topic) ==
    <<Rectangle(0), Rectangle(0), Rectangle(0),
      Shape("textbox", 25, <<<<"THANK YOU">>>>),
      Shape("textbox", 42, <<<<"Questions & Discussion">>>>),
      Shape("textbox", 55, SplitLines(<<"Presentation on:", " ">> \o topic)),
      Rectangle(40)>>

\* the slides of the file create_powerpoint saves
RenderPpt(slides_data, topic, image) ==
    <<TitleSlide(topic)>>
    \o [k \in 1..Len(slides_data) |-> ContentSlide(slides_data[k], image)]
    \o <<ThankYouSlide(topic)>>

\* sequences of 1..n members of S
SeqsUpTo(S, n) == UNION { [1..k -> S] : k \in 1..n }

\* the texts of the paragraphs tried: empty, blank, plain, and lines that
\* start with each of the markers
ParaTexts ==
    { <<>>, <<" ">>, <<"Intro">>, <<"-", " ", "a">>, <<BulletChar, "b">>,
      <<"*", "*", "c">> }

\* the parser and the renderer keep nothing from one call to the next: a
\* behaviour makes one call
Unused == last.ep = "none"

\* extract_ppt_to_json reads one shape
ParseShape ==
    \E paras \in SeqsUpTo(ParaTexts, MaxParas), top \in {6, 25, 48},
       slide_idx \in {0, 1} :
       LET shape == Shape("textbox", top, paras)
       IN /\ Unused
          /\ last' = [ep |-> "extract_shape", slide_idx |-> slide_idx,
                      shape |-> shape,
                      result |-> ExtractShape(slide_idx, shape)]
          /\ UNCHANGED <<db, heap, presFile, jsonFile, structFile, pptFiles,
                         request_counts, admitted, apiKey, diskOk, now, uuids,
                         deleted, prevCopy, bucket, s3Client, inflight>>

\* the slides of the files tried: a slide with a title and bullets, a slide
\* with a text shape that has no position, a slide with a picture whose
\* image cannot be read, an empty slide
FileSlides ==
    { <<Rectangle(0), Shape("textbox", 6, <<<<"Intro">>>>),
        Shape("textbox", 18, <<<<BulletChar, " ", "a">>>>)>>,
      <<Shape("textbox", 6, <<<<"Agenda">>>>),
        Shape("textbox", NoTop, <<<<"Notes">>>>)>>,
      <<[Shape("picture", 18, <<>>) EXCEPT !.blob = FALSE]>>,
      <<>> }

\* extract_ppt_to_json reads a file
ExtractPpt ==
    \E slides \in SeqsUpTo(FileSlides, MaxFileSlides) :
       /\ Unused
       /\ last' = [ep |-> "extract_ppt_to_json", slides |-> slides,
                   result |-> extract_ppt_to_json(slides)]
       /\ UNCHANGED <<db, heap, presFile, jsonFile, structFile, pptFiles,
                      request_counts, admitted, apiKey, diskOk, now, uuids,
                      deleted, prevCopy, bucket, s3Client, inflight>>

\* the titles tried: plain, with blanks around it, starting with a marker,
\* empty, and of two lines the second of which starts with a marker
RecordTitles ==
    { <<"Overview">>, <<" ", "Overview", " ">>, <<"-", " ", "Plan">>, <<>>,
      <<"Plan", "\n", "*", "draft">> }
RecordContents == { <<>>, <<<<"point">>>> }
Records == { [title |-> t, content |-> c] : t \in RecordTitles,
                                              c \in RecordContents }

\* create_powerpoint renders a list of records and extract_ppt_to_json
\* reads the file
RoundTrip ==
    \E slides_data \in SeqsUpTo(Records, MaxRecords), image \in BOOLEAN :
       /\ Unused
       /\ last' = [ep |-> "round_trip", slides_data |-> slides_data,
                   image |-> image,
                   result |-> extract_ppt_to_json(
                                 RenderPpt(slides_data, <<"ai">>, image))]
       /\ UNCHANGED <<db, heap, presFile, jsonFile, structFile, pptFiles,
                      request_counts, admitted, apiKey, diskOk, now, uuids,
                      deleted, prevCopy, bucket, s3Client, inflight>>

NextParse ==
    \/ ParseShape
    \/ ExtractPpt
    \/ RoundTrip

SpecParse == Init /\ [][NextParse]_vars

----------------------------------------------------------------------------
(* slide_operations 'delete' handled by two threads of the server at once.
   The presentation is the object presentations_db holds, shared by the
   threads; a handler reads it when it checks the request, again when it
   removes the slide, and again when it writes the file. *)

Threads == {1, 2}
RacePid == "p1"

RaceFrame ==
    UNCHANGED <<jsonFile, structFile, pptFiles, request_counts, admitted,
                apiKey, diskOk, uuids, deleted, prevCopy, bucket, s3Client>>

\* the handler up to and with `if len(slides) <= 1`: the body is read, the
\* presentation loaded, the index and the slide count checked
DeleteCheck(t) ==
    \E slide_index \in -1..MaxInitSlides :
    LET ld == LoadPresentation(RacePid)
        slides == ld.db[RacePid].deck
        Refuse(error) ==
            /\ last' = Answer("slide_operations", "delete", RacePid,
                              slide_index, TRUE, "", "", 400, error, FALSE,
                              Len(slides), 0)
            /\ UNCHANGED inflight
    IN /\ t \notin DOMAIN inflight
       /\ now < MaxClock
       /\ db' = ld.db
       /\ heap' = ld.heap
       /\ UNCHANGED <<presFile, now>>
       /\ RaceFrame
       /\ IF InvalidIndex(slides, slide_index)
          THEN Refuse("Invalid slide index")
          ELSE IF CannotDelete(slides)
          THEN Refuse(CannotDeleteText)
          ELSE /\ inflight' = (t :> [pc |-> "remove", idx |-> slide_index,
                                     n0 |-> Len(slides)]) @@ inflight
               /\ UNCHANGED last

\* slides.pop(slide_index), the renumbering and the new updated_at; pop
\* raises IndexError when the list has become too short
DeleteRemove(t) ==
    /\ t \in DOMAIN inflight
    /\ inflight[t].pc = "remove"
    /\ LET slides == db[RacePid].deck
           slide_index == inflight[t].idx
       IN IF slide_index >= Len(slides)
          THEN /\ last' = [Answer("slide_operations", "delete", RacePid,
                                  slide_index, TRUE, "", "", 500,
                                  "Error performing slide operation: pop index out of range",
                                  FALSE, inflight[t].n0, 0)
                           EXCEPT !.exc = "pop index out of range"]
               /\ inflight' = Without(inflight, t)
               /\ UNCHANGED <<db, heap, now>>
          ELSE /\ db' = [db EXCEPT ![RacePid] =
                           Touch([@ EXCEPT !.deck =
                                     DeleteSlide(slides, slide_index)],
                                 now + 1)]
               /\ heap' = Collect(db', heap)
               /\ now' = now + 1
               /\ inflight' = [inflight EXCEPT ![t].pc = "save"]
               /\ UNCHANGED last
    /\ UNCHANGED presFile
    /\ RaceFrame

\* json.dump(presentation, f) and the response
DeleteSave(t) ==
    /\ t \in DOMAIN inflight
    /\ inflight[t].pc = "save"
    /\ presFile' = (RacePid :> Dump(heap, db[RacePid])) @@ presFile
    /\ last' = Answer("slide_operations", "delete", RacePid,
                      inflight[t].idx, TRUE, "", "", 200,
                      "Slide deleted successfully", TRUE, inflight[t].n0,
                      Len(db[RacePid].deck))
    /\ inflight' = Without(inflight, t)
    /\ UNCHANGED <<db, heap, now>>
    /\ RaceFrame

NextRace ==
    \/ \E t \in Threads : DeleteCheck(t)
    \/ \E t \in Threads : DeleteRemove(t)
    \/ \E t \in Threads : DeleteSave(t)

SpecRace == InitStored /\ [][NextRace]_vars

----------------------------------------------------------------------------
(* What the claims speak of *)

\* the slide at position k (from 1) has slide_number k
Numbered(slides) == \A k \in 1..Len(slides) : slides[k].slide_number = k

\* the presentation a request on `pid` works on: the cached one, or the
\* one loaded from its file
Seen(pid) == LoadPresentation(pid).db[pid]
SeenHeap(pid) == LoadPresentation(pid).heap

\* a request on `pid` finds a slide array
DeckExists(pid) ==
    /\ pid # ""
    /\ LoadPresentation(pid).found
    /\ HasJson(Seen(pid))

\* the presentation as its JSON text, the elements of every slide inline
ModelSeen(pid) == Dump(SeenHeap(pid), Seen(pid))

\* the same slide object: the same keys but slide_number, the same list
SameSlide(a, b) ==
    a.id = b.id /\ a.layout_type = b.layout_type /\ a.elems = b.elems

IsSlideOp(r, op) ==
    r.ep = "slide_operations" /\ r.op = op /\ r.pid # "" /\ r.hasIdx

Succeeded(r) == r.status = 200

CannotDeleteMessage ==
    "Cannot delete slide. Presentation must have at least one slide."

----------------------------------------------------------------------------
\* C1: on a presentation that starts with at least one slide, after any
\* sequence of copy, delete and update requests (and restarts) the slide
\* array, cached or on disk, has at least one slide, and a delete on a
\* one-slide array is refused with 400.
C1_AtLeastOneSlide ==
    /\ \A p \in DOMAIN db : HasJson(db[p]) => Len(db[p].deck) >= 1
    /\ \A p \in DOMAIN presFile :
          presFile[p].json => Len(presFile[p].deck) >= 1
    /\ (IsSlideOp(last, "delete") /\ last.n0 = 1) =>
          (last.status = 400 /\ ~last.wrote)

\* a delete refused on the last slide left by an earlier successful delete
C1_Witness ==
    /\ IsSlideOp(last, "delete") /\ last.n0 = 1
    /\ last.error = CannotDeleteMessage
    /\ last.pid \in DOMAIN db /\ db[last.pid].updated_at >= 1
    /\ Len(db[last.pid].deck) = 1
    /\ db[last.pid].deck[1].id = "slide_1"

\* C2: after every successful copy or delete the slide at position i
\* (from 0) has slide_number i + 1, in the cached array and in the file.
C2_NumberedAfterEdit ==
    ((IsSlideOp(last, "copy") \/ IsSlideOp(last, "delete"))
        /\ Succeeded(last)) =>
       /\ Numbered(db[last.pid].deck)
       /\ Numbered(presFile[last.pid].deck)
       /\ Len(db[last.pid].deck) = last.count

\* a copy before the end of the array: the slides behind it are renumbered
C2_Witness ==
    /\ IsSlideOp(last, "copy") /\ Succeeded(last)
    /\ last.idx + 1 < last.n0
    /\ last.count = 3

\* C3: a successful copy(i) on N slides gives N + 1 slides, the clone at
\* position i + 1, the slides formerly at 0..i where they were, the slides
\* formerly at i+1..N-1 one position later in the same order, and the id of
\* the clone differs from the id of every other slide.
C3_CopyPlacesClone ==
    [][ (IsSlideOp(last', "copy") /\ Succeeded(last')) =>
          LET old == Seen(last'.pid).deck
              new == db'[last'.pid].deck
              i == last'.idx
              N == Len(old)
          IN /\ Len(new) = N + 1
             /\ \A k \in 1..(i + 1) : SameSlide(new[k], old[k])
             /\ \A k \in (i + 2)..N : SameSlide(new[k + 1], old[k])
             /\ new[i + 2].elems = old[i + 1].elems
             /\ new[i + 2].layout_type = old[i + 1].layout_type
             /\ \A k \in 1..(N + 1) : k # i + 2 => new[k].id # new[i + 2].id
      ]_vars

\* a copy with slides before and behind the source
C3_Witness ==
    /\ IsSlideOp(last, "copy") /\ Succeeded(last)
    /\ last.idx >= 1 /\ last.idx + 1 < last.n0
    /\ db[last.pid].deck[last.idx + 2].id # db[last.pid].deck[last.idx + 1].id

\* the elements of the source before a copy step, and of the clone after it
SourceBefore == ElementsOf(SeenHeap(last'.pid),
                           Seen(last'.pid).deck[last'.idx + 1])
CloneAfter == ElementsOf(heap', db'[last'.pid].deck[last'.idx + 2])

Suffixed(items) == [k \in 1..Len(items) |-> items[k] \o CopySuffix]

\* C4 as claimed: after a successful copy every title/text content and every
\* bullet item of the clone is the field of the source before the copy
\* followed by " (Copy)" once.
C4_EveryTextSuffixed ==
    [][ (IsSlideOp(last', "copy") /\ Succeeded(last')) =>
          /\ Len(CloneAfter) = Len(SourceBefore)
          /\ \A k \in 1..Len(SourceBefore) :
                /\ CloneAfter[k].type = SourceBefore[k].type
                /\ SourceBefore[k].type \in {"title", "text"} =>
                      CloneAfter[k].content
                          = SourceBefore[k].content \o CopySuffix
                /\ SourceBefore[k].type = "bullet_list" =>
                      CloneAfter[k].items = Suffixed(SourceBefore[k].items)
      ]_vars

\* C4 as amended: after a successful copy every non-empty title/text content
\* and every bullet item of the clone is the field of the source before the
\* copy followed by " (Copy)" once; an empty title/text content stays empty,
\* and the other elements are as in the source.
C4_NonEmptyTextSuffixed ==
    [][ (IsSlideOp(last', "copy") /\ Succeeded(last')) =>
          /\ Len(CloneAfter) = Len(SourceBefore)
          /\ \A k \in 1..Len(SourceBefore) :
                /\ CloneAfter[k].type = SourceBefore[k].type
                /\ (SourceBefore[k].type \in {"title", "text"}
                      /\ SourceBefore[k].content # "") =>
                      CloneAfter[k].content
                          = SourceBefore[k].content \o CopySuffix
                /\ (SourceBefore[k].type \in {"title", "text"}
                      /\ SourceBefore[k].content = "") =>
                      CloneAfter[k].content = ""
                /\ SourceBefore[k].type = "bullet_list" =>
                      CloneAfter[k].items = Suffixed(SourceBefore[k].items)
                /\ SourceBefore[k].type \notin
                       {"title", "text", "bullet_list"} =>
                      CloneAfter[k] = SourceBefore[k]
      ]_vars

\* the clone of the parsed first slide: title and bullet items suffixed once
C4_Witness ==
    /\ IsSlideOp(last, "copy") /\ Succeeded(last)
    /\ ElementsOf(heap, db[last.pid].deck[last.idx + 2])
         = <<Title("Intro (Copy)"), Bullets(<<"a (Copy)", " (Copy)">>)>>

\* C5: copy(i) followed by delete(i + 1) is not refused and returns the slide
\* count to its value before the copy, and the slide numbers are 1..N after
\* the copy and after the delete.
C5_CopyThenDelete ==
    /\ (IsSlideOp(last, "copy") /\ Succeeded(last)) =>
          /\ Len(db[last.pid].deck) = last.n0 + 1
          /\ Numbered(db[last.pid].deck)
    /\ (IsSlideOp(last, "delete") /\ IsSlideOp(prevCopy, "copy")
          /\ last.pid = prevCopy.pid /\ last.idx = prevCopy.idx + 1) =>
          /\ last.status \notin {400, 404}
          /\ Len(db[last.pid].deck) = prevCopy.n0
          /\ Succeeded(last) => last.count = prevCopy.n0
          /\ Numbered(db[last.pid].deck)

\* the clone of a slide that is not the last one was deleted
C5_Witness ==
    /\ IsSlideOp(last, "delete") /\ Succeeded(last)
    /\ IsSlideOp(prevCopy, "copy")
    /\ last.pid = prevCopy.pid /\ last.idx = prevCopy.idx + 1
    /\ prevCopy.idx + 1 < prevCopy.n0

\* C6: a delete on an array of exactly one slide is answered 400 and leaves
\* the presentation as it was: the same slides, the same updated_at, the file
\* not written.
C6_DeleteLastRefused ==
    [][ \A p \in PresIds :
          (IsSlideOp(last', "delete") /\ last'.pid = p /\ DeckExists(p)
             /\ Len(Seen(p).deck) = 1) =>
            /\ last'.status = 400
            /\ ~last'.wrote
            /\ ModelSeen(p)' = ModelSeen(p)
            /\ presFile' = presFile
      ]_vars

\* the delete of the only slide, at its index, refused
C6_Witness ==
    /\ IsSlideOp(last, "delete") /\ last.idx = 0 /\ last.n0 = 1
    /\ last.status = 400 /\ last.error = CannotDeleteMessage

\* C7: a copy or delete with slide_index outside [0, len(slides)) is answered
\* 400 and leaves the presentation as it was: the same slides, the same
\* updated_at, the file not written.
C7_BadIndexRefused ==
    [][ \A p \in PresIds :
          ((IsSlideOp(last', "copy") \/ IsSlideOp(last', "delete"))
             /\ last'.pid = p /\ DeckExists(p)
             /\ (last'.idx < 0 \/ last'.idx >= Len(Seen(p).deck))) =>
            /\ last'.status = 400
            /\ ~last'.wrote
            /\ ModelSeen(p)' = ModelSeen(p)
            /\ presFile' = presFile
      ]_vars

\* a copy one past the end of an array of two or more slides, refused
C7_Witness ==
    /\ IsSlideOp(last, "copy") /\ last.idx = last.n0 /\ last.n0 >= 2
    /\ last.status = 400 /\ last.error = "Invalid slide index"

\* the first position (from 1) of a slide with this id, 0 when there is none
FirstWithId(slides, sid) ==
    IF \E k \in 1..Len(slides) : slides[k].id = sid
    THEN CHOOSE k \in 1..Len(slides) :
            /\ slides[k].id = sid
            /\ \A j \in 1..(k - 1) : slides[j].id # sid
    ELSE 0

\* C8: an update that is answered success puts new_slide_data in the place
\* of the first slide whose id is slide_id and leaves every other slide and
\* the slide count as they were; when no slide has that id the slide array
\* is left as it was, whatever the answer.
C8_UpdateInPlace ==
    [][ (last'.ep = "update_slide" /\ last'.status # 400
           /\ DeckExists(last'.pid)) =>
          LET old == Seen(last'.pid).deck
              oldHeap == SeenHeap(last'.pid)
              new == db'[last'.pid].deck
              k == FirstWithId(old, last'.sid)
          IN /\ Len(new) = Len(old)
             /\ k = 0 => DumpDeck(heap', new) = DumpDeck(oldHeap, old)
             /\ (k # 0 /\ Succeeded(last')) =>
                   /\ DumpSlide(heap', new[k]) = PayloadSlide(last'.arg)
                   /\ \A j \in 1..Len(old) : j # k =>
                         /\ new[j] = old[j]
                         /\ ElementsOf(heap', new[j])
                              = ElementsOf(oldHeap, old[j])
      ]_vars

\* the second slide replaced by a payload that carries another id
C8_Witness ==
    /\ last.ep = "update_slide" /\ Succeeded(last)
    /\ last.sid = "slide_1" /\ last.arg = "edit"
    /\ Len(db[last.pid].deck) >= 2
    /\ DumpSlide(heap, db[last.pid].deck[2]) = PayloadSlide("edit")
    /\ db[last.pid].deck[1].id = "slide_0"

\* create_presentation answered success with this id, and
\* delete_presentation was not asked to delete it
Created(pid) == pid \in DOMAIN jsonFile /\ pid \notin deleted

\* C9: a presentation that create_presentation returned has a JSON slide
\* model: get_presentation_json answers 200 with a non-empty slide list, and
\* a copy at index 0 succeeds and raises the slide count by one.
C9_CreatedHasJsonModel ==
    /\ (last.ep = "get_presentation_json" /\ Created(last.pid)) =>
          (Succeeded(last) /\ last.count >= 1)
    /\ (IsSlideOp(last, "copy") /\ last.idx = 0 /\ Created(last.pid)) =>
          (Succeeded(last) /\ last.n0 >= 1 /\ last.count = last.n0 + 1)

\* C10: update_slide, export_ppt and slide_operations on a presentation
\* that create_presentation returned do not answer 404 'Presentation not
\* found', also after the cache was emptied by a restart.
C10_CreatedSurvivesRestart ==
    (last.ep \in {"update_slide", "export_ppt", "slide_operations"}
       /\ Created(last.pid)) =>
      ~(last.status = 404 /\ last.error = "Presentation not found")

----------------------------------------------------------------------------
\* C11: an export that succeeds, with format pptx as with format pdf,
\* delivers a file with the slides of the current JSON model: as many slides
\* as the slide array has after the edits made so far.
C11_ExportDeliversModel ==
    (last.ep = "export_ppt" /\ last.op \in {"pptx", "pdf"}
       /\ Succeeded(last) /\ HasJson(db[last.pid])) =>
      last.count = Len(db[last.pid].deck)

----------------------------------------------------------------------------
\* a call of generate_ai_content with a credential
Generated(r) == r.ep = "generate_ai_content" /\ r.api_key

\* C12: when the call of the LLM fails or its answer is not JSON, the
\* generator returns a non-empty list of exactly the requested number of
\* slides; for 5 slides the first is titled "Introduction to <topic>", the
\* second "Key Concepts of <topic>" and the last "Summary and Conclusion".
C12_FallbackHasRequestedLength ==
    (Generated(last) /\ last.llm \in {"text", "http_error", "exception"}) =>
      LET l == last.result.list
      IN /\ ~Falsy(last.result)
         /\ Len(l) = last.num_slides
         /\ last.num_slides = 5 =>
               /\ l[1].title = "Introduction to " \o last.topic
               /\ l[2].title = "Key Concepts of " \o last.topic
               /\ l[Len(l)].title = "Summary and Conclusion"

\* C13 as claimed: whatever the credential and the answer of the LLM,
\* generate_ai_content returns a non-empty list, never None.
C13_NeverNullOrEmpty ==
    last.ep = "generate_ai_content" => ~Falsy(last.result)

\* C13: with a credential, whatever the answer of the LLM,
\* generate_ai_content returns a non-empty list, the parsed one or the
\* fallback one; without a credential it returns None.
C13_NeverEmptyWithKey ==
    last.ep = "generate_ai_content" =>
      IF last.api_key
      THEN /\ ~Falsy(last.result)
           /\ last.result.list \in
                 {ParsedList(last.llm),
                  create_fallback_slides(last.topic, last.num_slides)}
      ELSE last.result.none

C13_Witness ==
    /\ Generated(last)
    /\ last.llm = "empty"
    /\ Len(last.result.list) >= 2
    /\ last.result.list[1].title = "Introduction to " \o last.topic

----------------------------------------------------------------------------
\* a create_presentation request the rate limiter admitted, with a body
IsCreate(r) ==
    r.ep = "create_presentation" /\ r.status # 429 /\ r.req.hasData

\* its topic and slide count are the ones the spec allows
ValidCreate(r) ==
    /\ IsCreate(r)
    /\ r.req.topic \in 1..MaxTopicLen
    /\ r.req.slides \in MinSlides..MaxSlidesReq

\* a 200 of the LLM whose content is not a JSON array of
\* {title, content[], description} records
Malformed == {"text", "object", "empty", "untitled", "no_content"}

\* C14: with a key configured, a valid create_presentation request whose
\* LLM answer is malformed is answered 200 with the templated fallback
\* slides (the save of the file not failing).
C14_MalformedOutputAbsorbed ==
    (ValidCreate(last) /\ last.req.llm \in Malformed /\ last.req.pptOk
       /\ apiKey /\ diskOk) =>
      /\ Succeeded(last)
      /\ db[last.pid].gen =
            create_fallback_slides(db[last.pid].topic, last.req.slides)

----------------------------------------------------------------------------
\* the admitted requests of client c that are less than RateWindow seconds
\* old at time t
Young(c, t) ==
    {j \in 1..Len(admitted[c]) :
       admitted[c][j] <= t /\ t - admitted[c][j] < RateWindow}

\* no window of RateWindow seconds holds more than MAX_REQUESTS_PER_MINUTE
\* admitted requests of client c; a window with most requests starts at one
WindowsKept(c) ==
    \A i \in 1..Len(admitted[c]) :
       Cardinality({j \in i..Len(admitted[c]) :
                      admitted[c][j] - admitted[c][i] < RateWindow})
         <= MAX_REQUESTS_PER_MINUTE

----------------------------------------------------------------------------
\* C16: an admitted create_presentation request whose topic is empty after
\* stripping, or longer than 200 characters, or whose slide count is outside
\* 1..20, is answered 400, with 'Topic is required' for the empty topic and
\* 'between 1 and 20' for the slide count, and creates nothing.
C16_InvalidCreateRejected ==
    [][(IsCreate(last') /\ ~ValidCreate(last')) =>
         /\ last'.status = 400
         /\ last'.req.topic = 0 => last'.error = "Topic is required"
         /\ (last'.req.topic \in 1..MaxTopicLen) =>
               last'.error = "Number of slides must be between 1 and 20"
         /\ UNCHANGED <<db, heap, presFile, jsonFile, structFile,
                        pptFiles, uuids>>]_vars

----------------------------------------------------------------------------
\* the id is in the cache or has a file in one of the folders
Known(pid) ==
    pid \in DOMAIN db \cup DOMAIN presFile \cup DOMAIN jsonFile
               \cup DOMAIN structFile

\* a request that names a presentation and has the other fields it needs
NamesPresentation(r) ==
    /\ r.ep \in {"get_presentation_json", "update_slide", "export_ppt",
                  "slide_operations", "delete_presentation"}
    /\ r.pid # ""
    /\ r.ep = "slide_operations" => (r.op # "" /\ r.hasIdx)
    /\ r.ep = "update_slide" => (r.sid # "" /\ r.arg # "empty")

\* C17: a request of get_presentation_json, update_slide, export_ppt,
\* slide_operations or delete_presentation on an id that is neither cached
\* nor persisted is answered 404 and changes neither the cache nor a file.
C17_UnknownIdNotFound ==
    [][(NamesPresentation(last') /\ ~Known(last'.pid)) =>
         /\ last'.status = 404
         /\ UNCHANGED <<db, heap, presFile, jsonFile, structFile,
                        pptFiles>>]_vars

----------------------------------------------------------------------------
\* the same request sent again
SameRequest(a, b) ==
    /\ a.ep = b.ep /\ a.op = b.op /\ a.pid = b.pid /\ a.idx = b.idx
    /\ a.hasIdx = b.hasIdx /\ a.sid = b.sid /\ a.arg = b.arg

\* C18: the body of a 500 that answers an exception does not depend on the
\* exception: a request answered 500 and then sent again and answered 500,
\* the handler having caught exceptions of different texts, gets the same
\* body both times.
C18_GenericInternalError ==
    [][(/\ last.status = 500 /\ last.exc # ""
        /\ last'.status = 500 /\ last'.exc # ""
        /\ SameRequest(last, last')) =>
         last'.error = last.error]_vars

----------------------------------------------------------------------------
\* a slide_operations request with a field missing or with an operation
\* that is neither copy nor delete
MalformedOp(r) ==
    /\ r.ep = "slide_operations"
    /\ (r.op \notin {"copy", "delete"} \/ r.pid = "" \/ ~r.hasIdx)

\* no file changes, a cached presentation and its lists stay as they are,
\* and what the cache gains is what the file of the presentation holds
NothingChanges ==
    /\ UNCHANGED <<presFile, jsonFile, structFile, pptFiles>>
    /\ \A p \in DOMAIN db : p \in DOMAIN db' /\ db'[p] = db[p]
    /\ \A r \in DOMAIN heap : r \in DOMAIN heap' /\ heap'[r] = heap[r]
    /\ \A p \in DOMAIN db' \ DOMAIN db :
          p \in DOMAIN presFile /\ Dump(heap', db'[p]) = presFile[p]

----------------------------------------------------------------------------
\* an update, copy or delete that reported success
Mutation(r) ==
    r.ep \in {"update_slide", "slide_operations"} /\ Succeeded(r)

\* C20: after an update, copy or delete that reports success, updated_at
\* of the presentation is the time this request read, and the JSON file of
\* the presentation is the text of the model in memory: the same slides in
\* the same order.
C20_SuccessIsPersisted ==
    Mutation(last) =>
      /\ last.pid \in DOMAIN db \cap DOMAIN presFile
      /\ now >= 1
      /\ db[last.pid].updated_at = now
      /\ presFile[last.pid] = Dump(heap, db[last.pid])

C20_Witness ==
    /\ Mutation(last)
    /\ IsSlideOp(last, "copy")
    /\ prevCopy.ep = "slide_operations"
    /\ db[last.pid].updated_at = 2
    /\ Len(presFile[last.pid].deck) = Len(db[last.pid].deck)
    /\ Len(presFile[last.pid].deck) >= 3
    /\ diskOk

----------------------------------------------------------------------------
\* C21: after delete_presentation reports success for an id, the id is not
\* in the cache and no file of the presentation is left on disk: not the
\* file of the presentations folder, not the structure file, and not the
\* JSON file create_presentation wrote.
C21_DeleteLeavesNoFile ==
    (last.ep = "delete_presentation" /\ Succeeded(last)) =>
      /\ last.pid \notin DOMAIN db
      /\ last.pid \notin DOMAIN presFile
      /\ last.pid \notin DOMAIN structFile
      /\ last.pid \notin DOMAIN jsonFile

----------------------------------------------------------------------------
\* the value a method of the storage mirror returned reports a failure:
\* None, False, or an empty list or dict
ReportsFailure(r) ==
    IF r.op \in {"upload_file", "upload_file_data", "get_file_url"}
    THEN r.url.none
    ELSE IF r.op \in {"download_file", "delete_file",
                      "delete_presentation_files"}
    THEN ~r.done
    ELSE IF r.op = "list_presentation_files" THEN r.files = {}
    ELSE r.urls = {}

\* C22: a method of the storage mirror reports a failure whenever the
\* service is not available or a remote call it made raised (for
\* upload_presentation_data: whenever every upload it made failed); in
\* particular delete_presentation_files does not return True when the
\* listing it depends on failed.
C22_MirrorReportsFailure ==
    last.ep = "s3_service" =>
      /\ ~last.available => ReportsFailure(last)
      /\ (last.op # "upload_presentation_data" /\ last.errored) =>
            ReportsFailure(last)
      /\ (last.op = "upload_presentation_data" /\ last.allErrored) =>
            ReportsFailure(last)

----------------------------------------------------------------------------
\* a line of the text starts with a bullet marker
HasMarkedLine(cs) ==
    \E k \in 1..Len(SplitLines(cs)) :
       LET line == PyStrip(SplitLines(cs)[k])
       IN line # <<>> /\ Head(line) \in BulletMarkers

\* the elements of a parsed slide that carry text
TextElements(slide) ==
    SelectSeq(slide.elements, LAMBDA e : e.type # "image")

----------------------------------------------------------------------------
\* C24: a successful copy(i) leaves the content of every slide that was
\* there before as it was, the source slide included: its elements (title
\* and text contents, bullet items) are what they were before the request,
\* also when the same slide is copied again.
C24_CopyLeavesSource ==
    [][ (IsSlideOp(last', "copy") /\ Succeeded(last')) =>
          LET old == Seen(last'.pid).deck
              oldHeap == SeenHeap(last'.pid)
              new == db'[last'.pid].deck
              i == last'.idx
          IN \A k \in 1..Len(old) :
                ElementsOf(heap', new[IF k <= i + 1 THEN k ELSE k + 1])
                  = ElementsOf(oldHeap, old[k])
      ]_vars

----------------------------------------------------------------------------
\* C25: whatever the interleaving of two delete requests on the same
\* presentation, each checking the slide count and removing its slide in
\* separate steps, the slide array in memory and in the file has at least
\* one slide.
C25_RaceKeepsOneSlide ==
    /\ \A p \in DOMAIN db : HasJson(db[p]) => Len(db[p].deck) >= 1
    /\ \A p \in DOMAIN presFile :
          presFile[p].json => Len(presFile[p].deck) >= 1

----------------------------------------------------------------------------
\* an update, copy or delete answered 500 because the file could not be
\* written
FailedSave(r) ==
    /\ r.ep \in {"update_slide", "slide_operations"}
    /\ r.status = 500
    /\ r.exc \in DiskErrors

\* C26: when the rewrite of the presentation's file fails during an update,
\* copy or delete, the model in memory is left as it was before the request:
\* the cached presentation is still what the file holds, so that a later
\* read does not see the edit that failed.
C26_FailedSaveLeavesModel ==
    /\ FailedSave(last) =>
          /\ last.pid \in DOMAIN db
          /\ Dump(heap, db[last.pid]) = presFile[last.pid]
    /\ \A p \in DOMAIN db \cap DOMAIN presFile :
          Dump(heap, db[p]) = presFile[p]

----------------------------------------------------------------------------
\* no two slides of the array have the same id
DistinctIds(slides) ==
    \A j, k \in 1..Len(slides) : j # k => slides[j].id # slides[k].id

\* C27: after every successful update, copy or delete the slide ids are
\* pairwise distinct and the slide at position i (from 0) has slide_number
\* i + 1; after update(slide_id, data) the slide at the replaced position
\* still has the id slide_id, whatever id and slide_number the payload
\* carries.
C27_UpdateKeepsDeckWellFormed ==
    [][ (Mutation(last') /\ HasJson(db'[last'.pid])) =>
          LET new == db'[last'.pid].deck
              k == FirstWithId(Seen(last'.pid).deck, last'.sid)
          IN /\ Numbered(new)
             /\ DistinctIds(new)
             /\ (last'.ep = "update_slide" /\ k # 0) =>
                   new[k].id = last'.sid
      ]_vars

----------------------------------------------------------------------------
\* the lines of a shape that are not blank, without the white space around
\* them
NonEmptyLines(shape) ==
    LET stripped == [k \in 1..Len(shape.paras) |-> PyStrip(shape.paras[k])]
    IN SelectSeq(stripped, LAMBDA line : line # <<>>)

\* C28: a text shape is classified bullet_list exactly when its first
\* non-empty line starts with a bullet marker, and its items are then all
\* the non-empty lines of the shape in order, the leading markers stripped;
\* a shape whose first non-empty line has no marker is a title or a text
\* and keeps its whole text.
C28_BulletByFirstLine ==
    (last.ep = "extract_shape" /\ NonEmptyLines(last.shape) # <<>>) =>
      LET lines == NonEmptyLines(last.shape)
          marked == Head(lines[1]) \in BulletMarkers
          e == last.result.elements[1]
      IN /\ ~last.result.raised
         /\ Len(last.result.elements) = 1
         /\ (e.type = "bullet_list") <=> marked
         /\ marked =>
               e.items = [k \in 1..Len(lines) |->
                            LStripOf(lines[k], BulletMarkers \cup {" "})]
         /\ ~marked =>
               /\ e.type \in {"title", "text"}
               /\ e.content = PyStrip(ShapeText(last.shape))

----------------------------------------------------------------------------
\* C29: when the extraction of one shape or one slide fails, the other
\* slides are still extracted: the result of extract_ppt_to_json is not
\* None and has one entry for each slide of the file, in the order of the
\* file.
C29_OneFailureDoesNotAbort ==
    last.ep = "extract_ppt_to_json" =>
      /\ ~last.result.none
      /\ Len(last.result.slides) = Len(last.slides)
      /\ \A k \in 1..Len(last.slides) :
            /\ last.result.slides[k].slide_number = k
            /\ ~ExtractShapes(k - 1, last.slides[k]).raised =>
                  last.result.slides[k].elements
                    = ExtractShapes(k - 1, last.slides[k]).elements

----------------------------------------------------------------------------
\* the timestamps of a list
Stamps(list) == {list[k] : k \in 1..Len(list)}

\* C30: a request answered 429 is not recorded; a request is answered 429
\* exactly when 30 admitted requests of its client are less than 60 seconds
\* old, however many requests were rejected before it; the list recorded for
\* a client holds admitted requests only, and never more than 30.
C30_RejectedNotRecorded ==
    [][last'.ep = "create_presentation" =>
         LET c == last'.arg
             young == {j \in 1..Len(admitted[c]) :
                         now' - admitted[c][j] < RateWindow}
         IN /\ (last'.status = 429)
                  <=> (Cardinality(young) >= MAX_REQUESTS_PER_MINUTE)
            /\ last'.status = 429 =>
                  /\ now' \notin Stamps(request_counts'[c])
                  /\ admitted'[c] = admitted[c]
            /\ \A d \in Clients :
                  /\ Len(request_counts'[d]) <= MAX_REQUESTS_PER_MINUTE
                  /\ Stamps(request_counts'[d]) \subseteq Stamps(admitted'[d])
       ]_vars

\* a client rejected at its 31st request is admitted again 61 seconds after
\* its first request
C30_Witness ==
    /\ last.ep = "create_presentation"
    /\ last.arg = BurstClient
    /\ last.status = 200
    /\ now = RateWindow + 1
    /\ Len(admitted[BurstClient]) = MAX_REQUESTS_PER_MINUTE + 1
    /\ admitted[BurstClient][1] = 1
    /\ \A d \in Clients \ {BurstClient} : admitted[d] = <<>>
    /\ Len(request_counts[BurstClient]) = MAX_REQUESTS_PER_MINUTE

====
